---- MODULE Spec2Model ----
(***************************************************************************)
(* The notebook "External objective function evaluation in Bayesian        *)
(* optimization with Emukit": a manual suggest/evaluate loop driven by the *)
(* notebook (section 1) and the same optimization run by the library's     *)
(* run_optimization (section 2), each followed by a plot of the evaluated  *)
(* points.  Inputs live on a grid of tenths of the interval [0, 1]; the    *)
(* objective values are the Forrester function's, in hundredths.           *)
(***************************************************************************)
EXTENDS Integers, Naturals, Sequences, FiniteSets, TLC

VARIABLES
    pc,              \* the statement of the notebook that runs next
    num_iterations,  \* the notebook's num_iterations
    acq,             \* the library's (opaque, deterministic) suggestion procedure
    X, Y,            \* the notebook's variables X and Y
    bo,              \* the optimizer of the manual run
    bo_loop,         \* the optimizer of the built-in run
    results,         \* the notebook's variable results
    X_new, Y_new,    \* the notebook's variables X_new and Y_new
    it,              \* iterations of the running loop begun so far
    trace,           \* history: the library and objective calls of the manual loop
    trace_loop,      \* history: the steps run_optimization made
    ctor,            \* history: the calls of the GPBayesianOptimization constructor
    markers,         \* the marker sizes of the latest plot
    exc              \* the call that raised, "none" while nothing did

vars == <<pc, num_iterations, acq, X, Y, bo, bo_loop, results, X_new, Y_new,
          it, trace, trace_loop, ctor, markers, exc>>

----------------------------------------------------------------------------
(* Bounds *)

MaxIterations == 3
NumOffsets == 3

----------------------------------------------------------------------------
(* The objective and the parameter space *)

\* the parameter space [0, 1] of the Forrester function, in tenths
Points == 0..10

\* (6x - 2)^2 sin(12x - 4) at x = p/10, in hundredths
forrester == <<303, -66, -64, -2, 11, 91, -15, -461, -495, 571, 1583>>

\* target_function maps an array of inputs to the array of their values
target_function(xs) == [i \in DOMAIN xs |-> forrester[xs[i] + 1]]

\* np.array([[0.1],[0.6],[0.9]])
InitialX == <<1, 6, 9>>

----------------------------------------------------------------------------
(* The library *)

RECURSIVE SumSeq(_)
SumSeq(s) == IF s = <<>> THEN 0 ELSE s[1] + SumSeq(Tail(s))

\* suggestions of two points
batch_sizeTwo == 1 + 1

\* the number of points a suggestion holds (the constructor's default)
batch_size == 1

\* the value of results before the first iteration (None)
None == <<>>

\* UserFunctionResult(x, y): one input with the output observed there
UserFunctionResult(x, y) == [X |-> x, Y |-> y]

\* GPBayesianOptimization(variables_list, X, Y): the loop state starts as the
\* data passed in, and the model is fitted to it
GPBayesianOptimization(x, y) ==
    [loop_state |-> [X |-> x, Y |-> y], model |-> [X |-> x, Y |-> y]]

\* an optimizer that has not been created yet
NoOptimizer == GPBayesianOptimization(<<>>, <<>>)

RECURSIVE LoopStateUpdate(_, _)
\* loop_state.update(results): every result becomes a new last row
LoopStateUpdate(ls, res) ==
    IF res = <<>> THEN ls
    ELSE LoopStateUpdate([X |-> Append(ls.X, res[1].X),
                          Y |-> Append(ls.Y, res[1].Y)], Tail(res))

\* the model is refitted on the data of the loop state
UpdateModel(o) == [o EXCEPT !.model = o.loop_state]

\* the acquisition optimizer: a deterministic function of the model's data
ComputeNextPoints(o) ==
    LET n == Len(o.model.X)
        offset == IF n \in DOMAIN acq THEN acq[n] ELSE 0
    IN  [j \in 1..batch_size |->
            (SumSeq(o.model.X) + offset + (j - 1)) % Cardinality(Points)]

\* the state get_next_points(results) leaves: results, if any, are recorded
\* and the model refitted before the suggestion is computed
GetNextPointsState(o, res) ==
    IF res # None THEN UpdateModel([o EXCEPT !.loop_state = LoopStateUpdate(@, res)])
    ELSE o

Event(e, k, arg, x, y) == [ev |-> e, it |-> k, arg |-> arg, x |-> x, y |-> y]

----------------------------------------------------------------------------
Init ==
    /\ pc = "create_bo"
    /\ num_iterations \in 0..MaxIterations
    /\ acq \in [3..(3 + MaxIterations) -> 0..(NumOffsets - 1)]
    /\ X = InitialX
    /\ Y = target_function(InitialX)
    /\ bo = NoOptimizer
    /\ bo_loop = NoOptimizer
    /\ results = None
    /\ X_new = <<>>
    /\ Y_new = <<>>
    /\ it = 0
    /\ trace = <<>>
    /\ trace_loop = <<>>
    /\ ctor = <<>>
    /\ markers = <<>>
    /\ exc = "none"

----------------------------------------------------------------------------
(* Section 1: the manual loop *)

\* results starting as the record of the last initial point in place of None
CreateBoResultsPreset ==
    /\ pc = "create_bo"
    /\ bo' = GPBayesianOptimization(X, Y)
    /\ ctor' = Append(ctor, [obj |-> "bo", it |-> it, X |-> X, Y |-> Y])
    /\ results' = <<UserFunctionResult(X[3], Y[3])>>
    /\ it' = 0
    /\ pc' = "for"
    /\ UNCHANGED <<num_iterations, acq, X, Y, bo_loop, X_new, Y_new, trace,
                   trace_loop, markers, exc>>

\* bo = GPBayesianOptimization(variables_list=space.parameters, X=X, Y=Y)
\* results = None
CreateBo ==
    /\ pc = "create_bo"
    /\ bo' = GPBayesianOptimization(X, Y)
    /\ ctor' = Append(ctor, [obj |-> "bo", it |-> it, X |-> X, Y |-> Y])
    /\ results' = None
    /\ it' = 0
    /\ pc' = "for"
    /\ UNCHANGED <<num_iterations, acq, X, Y, bo_loop, X_new, Y_new, trace,
                   trace_loop, markers, exc>>

\* the loop handing its last results to the optimizer when it ends
ForNextFeedingLast ==
    /\ pc = "for"
    /\ IF it < num_iterations
       THEN /\ it' = it + 1
            /\ pc' = "get_next_points"
            /\ bo' = bo
       ELSE /\ it' = it
            /\ pc' = "assign"
            /\ bo' = GetNextPointsState(bo, results)
    /\ UNCHANGED <<num_iterations, acq, X, Y, bo_loop, results, X_new,
                   Y_new, trace, trace_loop, ctor, markers, exc>>

\* the loop with one iteration too many
ForNextOffByOne ==
    /\ pc = "for"
    /\ IF it <= num_iterations
       THEN /\ it' = it + 1
            /\ pc' = "get_next_points"
       ELSE /\ it' = it
            /\ pc' = "assign"
    /\ UNCHANGED <<num_iterations, acq, X, Y, bo, bo_loop, results, X_new,
                   Y_new, trace, trace_loop, ctor, markers, exc>>

\* for _ in range(num_iterations):
ForNext ==
    /\ pc = "for"
    /\ IF it < num_iterations
       THEN /\ it' = it + 1
            /\ pc' = "get_next_points"
       ELSE /\ it' = it
            /\ pc' = "assign"
    /\ UNCHANGED <<num_iterations, acq, X, Y, bo, bo_loop, results, X_new,
                   Y_new, trace, trace_loop, ctor, markers, exc>>

\* the optimizer created anew from X and Y in every iteration
GetNextPointsRecreating ==
    /\ pc = "get_next_points"
    /\ bo' = GetNextPointsState(GPBayesianOptimization(X, Y), results)
    /\ X_new' = ComputeNextPoints(bo')
    /\ trace' = Append(trace, Event("get_next_points", it, results, X_new', <<>>))
    /\ pc' = "target_function"
    /\ UNCHANGED <<num_iterations, acq, X, Y, bo_loop, results, Y_new, it,
                   trace_loop, ctor, markers, exc>>

\* X_new = bo.get_next_points(results)
GetNextPoints ==
    /\ pc = "get_next_points"
    /\ bo' = GetNextPointsState(bo, results)
    /\ X_new' = ComputeNextPoints(bo')
    /\ trace' = Append(trace, Event("get_next_points", it, results, X_new', <<>>))
    /\ pc' = "target_function"
    /\ UNCHANGED <<num_iterations, acq, X, Y, bo_loop, results, Y_new, it,
                   trace_loop, ctor, markers, exc>>

\* the objective evaluated at X in place of X_new
EvaluateAtX ==
    /\ pc = "target_function"
    /\ Y_new' = target_function(X)
    /\ trace' = Append(trace, Event("target_function", it, None, X, Y_new'))
    /\ pc' = "UserFunctionResult"
    /\ UNCHANGED <<num_iterations, acq, X, Y, bo, bo_loop, results, X_new, it,
                   trace_loop, ctor, markers, exc>>

\* Y_new = target_function(X_new)
Evaluate ==
    /\ pc = "target_function"
    /\ Y_new' = target_function(X_new)
    /\ trace' = Append(trace, Event("target_function", it, None, X_new, Y_new'))
    /\ pc' = "UserFunctionResult"
    /\ UNCHANGED <<num_iterations, acq, X, Y, bo, bo_loop, results, X_new, it,
                   trace_loop, ctor, markers, exc>>

\* the new input paired with Y[0] in place of Y_new[0]
BuildResultsStaleY ==
    /\ pc = "UserFunctionResult"
    /\ results' = <<UserFunctionResult(X_new[1], Y[1])>>
    /\ pc' = "for"
    /\ UNCHANGED <<num_iterations, acq, X, Y, bo, bo_loop, X_new, Y_new, it,
                   trace, trace_loop, ctor, markers, exc>>

\* results = [UserFunctionResult(X_new[0], Y_new[0])]
BuildResults ==
    /\ pc = "UserFunctionResult"
    /\ results' = <<UserFunctionResult(X_new[1], Y_new[1])>>
    /\ pc' = "for"
    /\ UNCHANGED <<num_iterations, acq, X, Y, bo, bo_loop, X_new, Y_new, it,
                   trace, trace_loop, ctor, markers, exc>>

\* the exception caught in the loop body, the loop going on
RaiseCaught ==
    /\ pc \in {"get_next_points", "target_function", "UserFunctionResult"}
    /\ exc' = pc
    /\ pc' = "for"
    /\ bo' = bo
    /\ UNCHANGED <<num_iterations, acq, X, Y, bo_loop, results, X_new, Y_new,
                   it, trace, trace_loop, ctor, markers>>

\* a call of the loop body raises; nothing in the notebook catches it, and
\* the execution of the notebook stops.  get_next_points may raise before or
\* after it recorded the results it was given.
Raise ==
    /\ pc \in {"get_next_points", "target_function", "UserFunctionResult"}
    /\ exc' = pc
    /\ pc' = "raised"
    /\ \/ bo' = bo
       \/ /\ pc = "get_next_points"
          /\ bo' = GetNextPointsState(bo, results)
    /\ UNCHANGED <<num_iterations, acq, X, Y, bo_loop, results, X_new, Y_new,
                   it, trace, trace_loop, ctor, markers>>

\* X = bo.loop_state.X
\* Y = bo.loop_state.Y
AssignXY ==
    /\ pc = "assign"
    /\ X' = bo.loop_state.X
    /\ Y' = bo.loop_state.Y
    /\ pc' = "plot_manual"
    /\ UNCHANGED <<num_iterations, acq, bo, bo_loop, results, X_new, Y_new,
                   it, trace, trace_loop, ctor, markers, exc>>

----------------------------------------------------------------------------
(* The plots *)

\* the size computed from i in place of i+1
markersizeFromZero(i, n) == [num |-> 10 * n + 10 * i, den |-> n]

\* markersize=10 + 10 * (i+1)/len(X), the exact quotient as a fraction
markersize(i, n) == [num |-> 10 * n + 10 * (i + 1), den |-> n]

\* the marker sizes of enumerate(zip(xs, ys)), in the order of plotting
MarkerSizes(xs, ys) ==
    LET n == Len(xs)
        m == IF Len(ys) < n THEN Len(ys) ELSE n
    IN  [k \in 1..m |-> markersize(k - 1, n)]

\* for i, (xs, ys) in enumerate(zip(X, Y)): plt.plot(..., markersize=...)
PlotManual ==
    /\ pc = "plot_manual"
    /\ markers' = MarkerSizes(X, Y)
    /\ pc' = "create_bo_loop"
    /\ UNCHANGED <<num_iterations, acq, X, Y, bo, bo_loop, results, X_new,
                   Y_new, it, trace, trace_loop, ctor, exc>>

----------------------------------------------------------------------------
(* Section 2: the built-in loop *)

\* X and Y not rebound: bo_loop created from what the manual run left in them
CreateBoLoopNoRebind ==
    /\ pc = "create_bo_loop"
    /\ bo_loop' = GPBayesianOptimization(X, Y)
    /\ ctor' = Append(ctor, [obj |-> "bo_loop", it |-> 0, X |-> X, Y |-> Y])
    /\ it' = 0
    /\ pc' = "run_loop"
    /\ UNCHANGED <<num_iterations, acq, X, Y, bo, results, X_new, Y_new, trace,
                   trace_loop, markers, exc>>

\* X = np.array([[0.1],[0.6],[0.9]])
\* Y = target_function(X)
\* bo_loop = GPBayesianOptimization(variables_list=space.parameters, X=X, Y=Y)
\* bo_loop.run_optimization(target_function, num_iterations)   (the call)
CreateBoLoop ==
    /\ pc = "create_bo_loop"
    /\ X' = InitialX
    /\ Y' = target_function(X')
    /\ bo_loop' = GPBayesianOptimization(X', Y')
    /\ ctor' = Append(ctor, [obj |-> "bo_loop", it |-> 0, X |-> X', Y |-> Y'])
    /\ it' = 0
    /\ pc' = "run_loop"
    /\ UNCHANGED <<num_iterations, acq, bo, results, X_new, Y_new, trace,
                   trace_loop, markers, exc>>

\* run_optimization: one iteration refits the model, computes a suggestion,
\* evaluates the objective there and records the results
RunLoopIteration ==
    /\ pc = "run_loop"
    /\ it < num_iterations
    /\ LET fitted == UpdateModel(bo_loop)
           new_x == ComputeNextPoints(fitted)
           new_y == target_function(new_x)
           res == [j \in DOMAIN new_x |-> UserFunctionResult(new_x[j], new_y[j])]
       IN  /\ bo_loop' = [fitted EXCEPT !.loop_state = LoopStateUpdate(@, res)]
           /\ trace_loop' = Append(trace_loop,
                                   Event("iteration", it + 1, res, new_x, new_y))
    /\ it' = it + 1
    /\ UNCHANGED <<pc, num_iterations, acq, X, Y, bo, results, X_new, Y_new,
                   trace, ctor, markers, exc>>

\* run_optimization returns after num_iterations iterations, the model
\* refitted on the final data
RunLoopReturn ==
    /\ pc = "run_loop"
    /\ it >= num_iterations
    /\ bo_loop' = UpdateModel(bo_loop)
    /\ pc' = "plot_loop"
    /\ UNCHANGED <<num_iterations, acq, X, Y, bo, results, X_new, Y_new, it,
                   trace, trace_loop, ctor, markers, exc>>

\* the second plot drawn from X and Y, like the first
PlotLoopFromXY ==
    /\ pc = "plot_loop"
    /\ markers' = MarkerSizes(X, Y)
    /\ pc' = "done"
    /\ UNCHANGED <<num_iterations, acq, X, Y, bo, bo_loop, results, X_new,
                   Y_new, it, trace, trace_loop, ctor, exc>>

\* for i, (xs, ys) in enumerate(zip(bo_loop.model.model.X, bo_loop.model.model.Y))
PlotLoop ==
    /\ pc = "plot_loop"
    /\ markers' = MarkerSizes(bo_loop.model.X, bo_loop.model.Y)
    /\ pc' = "done"
    /\ UNCHANGED <<num_iterations, acq, X, Y, bo, bo_loop, results, X_new,
                   Y_new, it, trace, trace_loop, ctor, exc>>

----------------------------------------------------------------------------
Next ==
    \/ CreateBo
    \/ ForNext
    \/ GetNextPoints
    \/ Evaluate
    \/ BuildResults
    \/ Raise
    \/ AssignXY
    \/ PlotManual
    \/ CreateBoLoop
    \/ RunLoopIteration
    \/ RunLoopReturn
    \/ PlotLoop

Spec == Init /\ [][Next]_vars

\* the notebook is one sequential script: a statement that can run does run
FairSpec == Spec /\ WF_vars(Next)

----------------------------------------------------------------------------
(* Histories and positions *)

\* the statements of the manual loop
LoopPcs == {"for", "get_next_points", "target_function", "UserFunctionResult"}

\* the statements of the manual loop's body
BodyPcs == {"get_next_points", "target_function", "UserFunctionResult"}

\* the statements reached only when the manual loop has run to its end
AfterLoopPcs == {"assign", "plot_manual", "create_bo_loop", "run_loop",
                 "plot_loop", "done"}

\* the statements reached only when run_optimization has returned
ReturnedPcs == {"plot_loop", "done"}

\* how many calls of e the manual loop has made
Calls(e) == Cardinality({k \in DOMAIN trace : trace[k].ev = e})

RECURSIVE Evaluated(_)
\* the points a history evaluated the objective at, in order
Evaluated(tr) ==
    IF tr = <<>> THEN <<>>
    ELSE (IF tr[1].ev = "get_next_points" THEN <<>> ELSE tr[1].x)
         \o Evaluated(Tail(tr))

IsPrefix(s, t) == Len(s) <= Len(t) /\ SubSeq(t, 1, Len(s)) = s

\* the constructor calls that made the optimizer named o
Constructions(o) == SelectSeq(ctor, LAMBDA c : c.obj = o)

\* a < b for marker sizes
SizeLess(a, b) == a.num * b.den < b.num * a.den

----------------------------------------------------------------------------
(* C1 *)

\* C1: once both runs are over, the log of the manual run (bo.loop_state.X, Y)
\* equals the log of the built-in run (bo_loop.loop_state.X, Y), row for row
\* and in the number of rows.
C1_SameResult ==
    pc \in ReturnedPcs => bo.loop_state = bo_loop.loop_state

----------------------------------------------------------------------------
(* C2 *)

\* C2: run_optimization(target_function, N) makes exactly N iterations, each
\* computing one suggestion, evaluating the objective at it and recording the
\* pair; when it returns the log is the 3 initial points followed by exactly
\* the N new points, in the order of their evaluation.
C2_RunOptimizationLoop ==
    /\ pc = "run_loop" => Len(trace_loop) = it /\ it <= num_iterations
    /\ \A k \in DOMAIN trace_loop :
          /\ trace_loop[k].it = k
          /\ Len(trace_loop[k].x) = 1
          /\ trace_loop[k].y = target_function(trace_loop[k].x)
          /\ trace_loop[k].arg =
                <<UserFunctionResult(trace_loop[k].x[1], trace_loop[k].y[1])>>
          /\ Len(bo_loop.loop_state.X) >= 3 + k
          /\ bo_loop.loop_state.X[3 + k] = trace_loop[k].x[1]
          /\ bo_loop.loop_state.Y[3 + k] = trace_loop[k].y[1]
    /\ pc \in ReturnedPcs =>
          /\ Len(trace_loop) = num_iterations
          /\ Len(bo_loop.loop_state.X) = 3 + num_iterations
          /\ Len(bo_loop.loop_state.Y) = 3 + num_iterations
          /\ bo_loop.loop_state.X = InitialX \o Evaluated(trace_loop)
          /\ bo_loop.loop_state.Y = target_function(bo_loop.loop_state.X)

C2_Witness ==
    /\ pc = "done"
    /\ num_iterations = MaxIterations
    /\ Len(bo_loop.loop_state.X) = 3 + MaxIterations

----------------------------------------------------------------------------
(* C3 *)

LogShape(o) ==
    /\ Len(o.loop_state.X) = Len(o.loop_state.Y)
    /\ o # NoOptimizer =>
          /\ IsPrefix(InitialX, o.loop_state.X)
          /\ IsPrefix(target_function(InitialX), o.loop_state.Y)

LogGrows(o, p) ==
    o # NoOptimizer =>
        /\ IsPrefix(o.loop_state.X, p.loop_state.X)
        /\ IsPrefix(o.loop_state.Y, p.loop_state.Y)

\* C3: the logs X and Y of an optimizer are append-only in the manual loop and
\* in run_optimization: every step leaves the previous contents an unchanged
\* prefix of the new contents, the three initial points stay the first three
\* rows in their order, and X and Y always have the same number of rows.
C3_AppendOnly ==
    /\ [](LogShape(bo) /\ LogShape(bo_loop))
    /\ [][LogGrows(bo, bo') /\ LogGrows(bo_loop, bo_loop')]_vars

C3_Witness ==
    /\ pc = "done"
    /\ Len(bo.loop_state.X) > 4
    /\ Len(bo_loop.loop_state.X) > 4
    /\ bo.loop_state.X[4] # bo.loop_state.X[5]

----------------------------------------------------------------------------
(* C4 *)

\* C4: every evaluation of the objective in the manual loop adds exactly one
\* row to bo.loop_state.X and one to bo.loop_state.Y, so that when the loop has
\* finished the number of rows is 3 plus the number of evaluations made.
C4_OneRowPerEvaluation ==
    pc \in AfterLoopPcs =>
        /\ Len(bo.loop_state.X) = 3 + Calls("target_function")
        /\ Len(bo.loop_state.Y) = 3 + Calls("target_function")

----------------------------------------------------------------------------
(* C5 *)

\* C5: every row of the manual run's log pairs an input with the objective's
\* value at that input, and the record passed to get_next_points in iteration
\* k+1 is exactly (X_new, target_function(X_new)) of iteration k: the point
\* suggested and evaluated last, with the value observed there.
C5_ResultPairs ==
    /\ bo.loop_state.Y = target_function(bo.loop_state.X)
    /\ \A k \in DOMAIN trace :
          (trace[k].ev = "get_next_points" /\ trace[k].it > 1) =>
              /\ k >= 3
              /\ trace[k - 2].ev = "get_next_points"
              /\ trace[k - 2].it = trace[k].it - 1
              /\ trace[k - 1].ev = "target_function"
              /\ trace[k - 1].it = trace[k].it - 1
              /\ trace[k - 1].x = trace[k - 2].x
              /\ trace[k].arg =
                    <<UserFunctionResult(trace[k - 2].x[1],
                                         target_function(trace[k - 2].x)[1])>>
    /\ (pc = "for" /\ it >= 1) =>
          results = <<UserFunctionResult(X_new[1], target_function(X_new)[1])>>

C5_Witness ==
    /\ pc = "target_function"
    /\ it = 3
    /\ trace[5].arg # trace[3].arg
    /\ Len(bo.loop_state.X) = 5

----------------------------------------------------------------------------
(* C6 *)

\* C6: the manual loop always comes to an end, and when it has run to its end
\* it has made exactly num_iterations calls of get_next_points and exactly
\* num_iterations evaluations of the objective, whatever the suggestions were;
\* at no time has it made more than num_iterations of either.
C6_UserStops ==
    /\ <>(pc \notin LoopPcs \cup {"create_bo"})
    /\ [](/\ Calls("get_next_points") <= num_iterations
          /\ Calls("target_function") <= num_iterations
          /\ pc \in AfterLoopPcs =>
                /\ Calls("get_next_points") = num_iterations
                /\ Calls("target_function") = num_iterations)

C6_Witness ==
    /\ pc = "assign"
    /\ num_iterations = MaxIterations
    /\ Calls("target_function") = MaxIterations

----------------------------------------------------------------------------
(* C7 *)

\* C7: in the manual loop suggestions and evaluations alternate, starting with
\* a suggestion; every evaluation is made at the most recent suggestion, in the
\* same iteration; a suggestion is requested only when no suggested point is
\* unevaluated, and at most one suggestion is outstanding at any time.
C7_Alternation ==
    /\ \A k \in DOMAIN trace :
          IF k % 2 = 1
          THEN /\ trace[k].ev = "get_next_points"
               /\ trace[k].it = (k + 1) \div 2
          ELSE /\ trace[k].ev = "target_function"
               /\ trace[k].it = trace[k - 1].it
               /\ trace[k].x = trace[k - 1].x
    /\ Calls("get_next_points") - Calls("target_function") \in {0, 1}
    /\ pc = "get_next_points" => Calls("get_next_points") = Calls("target_function")
    /\ pc = "target_function" => Calls("get_next_points") = Calls("target_function") + 1

C7_Witness ==
    /\ pc = "target_function"
    /\ Len(trace) = 5
    /\ trace[5].x # trace[3].x

----------------------------------------------------------------------------
(* C8 *)

\* C8: no failure is caught.  When get_next_points, target_function or the
\* UserFunctionResult constructor raises in iteration k of the manual loop, the
\* notebook stops there: iteration k made no call after the one that raised,
\* no later iteration makes a suggestion or an evaluation, nothing after the
\* loop runs, and X and Y keep the three initial points and their values.
C8_Uncaught ==
    /\ [](exc # "none" =>
            /\ pc = "raised"
            /\ exc \in BodyPcs
            /\ X = InitialX
            /\ Y = target_function(InitialX)
            /\ bo_loop = NoOptimizer
            /\ markers = <<>>
            /\ Calls("get_next_points") =
                  (IF exc = "get_next_points" THEN it - 1 ELSE it)
            /\ Calls("target_function") =
                  (IF exc = "UserFunctionResult" THEN it ELSE it - 1))
    /\ [][exc # "none" => UNCHANGED <<pc, exc, trace, X, Y>>]_vars

C8_Witness ==
    /\ pc = "raised"
    /\ exc = "target_function"
    /\ it = 2
    /\ Len(bo.loop_state.X) = 4

----------------------------------------------------------------------------
(* C9 *)

\* C9: in the manual loop the optimizer is created anew for each iteration,
\* and each creation is passed the data of all previous iterations: inside
\* iteration k the constructor has been called k times, the last time with the
\* initial points followed by every point evaluated before iteration k.
C9_RecreatedEachIteration ==
    pc \in BodyPcs =>
        /\ Len(Constructions("bo")) = it
        /\ LET last == Constructions("bo")[Len(Constructions("bo"))]
               before == SelectSeq(trace, LAMBDA e : e.it < it)
           IN  /\ last.X = InitialX \o Evaluated(before)
               /\ last.Y = target_function(last.X)

----------------------------------------------------------------------------
(* C10 *)

\* C10: in both plots the marker size 10 + 10*(i+1)/n of the point at index i
\* of a log of n points is strictly increasing in i, lies in the range (10, 20]
\* and is exactly 20 for the last point; every point of the log gets a marker.
C10_MarkerOrder ==
    /\ \A i, j \in DOMAIN markers : i < j => SizeLess(markers[i], markers[j])
    /\ \A i \in DOMAIN markers :
          /\ markers[i].den = Len(markers)
          /\ 10 * markers[i].den < markers[i].num
          /\ markers[i].num <= 20 * markers[i].den
    /\ markers # <<>> => markers[Len(markers)].num = 20 * markers[Len(markers)].den
    /\ pc = "create_bo_loop" => Len(markers) = Len(X) /\ Len(X) >= 3
    /\ pc = "done" => Len(markers) = Len(bo_loop.model.X) /\ Len(markers) >= 3

C10_Witness ==
    /\ pc = "done"
    /\ Len(markers) = 3 + MaxIterations

----------------------------------------------------------------------------
(* C11 *)

\* C11: the result of the last iteration of the manual loop is built but never
\* handed back: after a loop of N >= 1 iterations the last call made is the
\* evaluation of iteration N, results holds its pair, and bo.loop_state.X and
\* bo.loop_state.Y hold exactly 3 + (N - 1) rows, the initial points followed
\* by the points of iterations 1..N-1; iteration N added no row.
C11_LastResultDropped ==
    (pc \in AfterLoopPcs /\ num_iterations >= 1) =>
        /\ Len(bo.loop_state.X) = 3 + (num_iterations - 1)
        /\ Len(bo.loop_state.Y) = 3 + (num_iterations - 1)
        /\ bo.loop_state.X =
              InitialX \o Evaluated(SelectSeq(trace, LAMBDA e : e.it < num_iterations))
        /\ bo.loop_state.Y = target_function(bo.loop_state.X)
        /\ trace[Len(trace)].ev = "target_function"
        /\ trace[Len(trace)].it = num_iterations
        /\ results = <<UserFunctionResult(trace[Len(trace)].x[1],
                                          trace[Len(trace)].y[1])>>

C11_Witness ==
    /\ pc = "assign"
    /\ num_iterations = MaxIterations
    /\ Len(bo.loop_state.X) = 3 + (MaxIterations - 1)
    /\ results # None

----------------------------------------------------------------------------
(* C12 *)

\* C12: the first get_next_points call of the manual loop is made with None
\* and adds nothing, so the first suggestion is computed from exactly the three
\* initial points; the call of every later iteration k is made with the single
\* result of iteration k-1, which it records before it computes the suggestion,
\* so the k-th suggestion is computed from exactly 3 + (k - 1) points.
C12_SuggestionData ==
    /\ \A k \in DOMAIN trace :
          trace[k].ev = "get_next_points" =>
              IF trace[k].it = 1 THEN trace[k].arg = None
              ELSE Len(trace[k].arg) = 1
    /\ pc \in {"target_function", "UserFunctionResult"} =>
          /\ Len(bo.model.X) = 3 + (it - 1)
          /\ Len(bo.loop_state.X) = 3 + (it - 1)
          /\ it = 1 => bo.model.X = InitialX /\ bo.loop_state.X = InitialX
          /\ it > 1 => bo.loop_state.X[Len(bo.loop_state.X)] = results[1].X
          /\ X_new = ComputeNextPoints(bo)

C12_Witness ==
    /\ pc = "UserFunctionResult"
    /\ it = 3
    /\ Len(bo.model.X) = 5
    /\ trace[1].arg = None

----------------------------------------------------------------------------
(* C13 *)

----------------------------------------------------------------------------
(* C14 *)

\* C14: the built-in run is independent of the manual run.  bo_loop is created
\* from X and Y rebound to the three initial points and their values, whatever
\* the manual loop recorded, its first suggestion is computed from these three
\* points, and no step of the second section changes bo.
C14_Independent ==
    /\ [](/\ \A k \in DOMAIN ctor :
                ctor[k].obj = "bo_loop" =>
                    /\ ctor[k].X = InitialX
                    /\ ctor[k].Y = target_function(InitialX)
          /\ pc \in {"run_loop"} \cup ReturnedPcs =>
                /\ X = InitialX
                /\ Y = target_function(InitialX)
                /\ IsPrefix(InitialX, bo_loop.loop_state.X)
          /\ trace_loop # <<>> =>
                trace_loop[1].x =
                    ComputeNextPoints(GPBayesianOptimization(InitialX,
                                                             target_function(InitialX))))
    /\ [][(pc \in {"create_bo_loop", "run_loop", "plot_loop"}) => bo' = bo]_vars

C14_Witness ==
    /\ pc = "done"
    /\ Len(bo.loop_state.X) = 3 + (MaxIterations - 1)
    /\ Len(bo_loop.loop_state.X) = 3 + MaxIterations

----------------------------------------------------------------------------
(* C15 *)

\* C15: the model is fitted to all data recorded so far whenever a suggestion
\* is computed: in the manual loop the model's data is the log at each
\* suggestion; in run_optimization the k-th suggestion is computed from the
\* model fitted to the 3 + (k - 1) rows the log then had; and when
\* run_optimization has returned the model's data is the complete log of
\* 3 + N rows, which the second plot shows, one marker per row.
C15_ModelData ==
    /\ pc \in {"target_function", "UserFunctionResult"} =>
          /\ bo.model = bo.loop_state
          /\ X_new = ComputeNextPoints(bo)
    /\ (pc = "run_loop" /\ it >= 1) =>
          /\ bo_loop.model.X = SubSeq(bo_loop.loop_state.X, 1, 3 + (it - 1))
          /\ bo_loop.model.Y = SubSeq(bo_loop.loop_state.Y, 1, 3 + (it - 1))
          /\ trace_loop[it].x = ComputeNextPoints(bo_loop)
    /\ pc \in ReturnedPcs =>
          /\ bo_loop.model = bo_loop.loop_state
          /\ Len(bo_loop.model.X) = 3 + num_iterations
          /\ bo_loop.model.X = InitialX \o Evaluated(trace_loop)
    /\ pc = "done" => Len(markers) = 3 + num_iterations

C15_Witness ==
    /\ pc = "done"
    /\ num_iterations = MaxIterations
    /\ Len(bo_loop.model.X) = 3 + MaxIterations
    /\ Len(markers) = Len(bo_loop.model.X)

====
